---- MODULE Spec2Model ----
(***************************************************************************)
(* Model of src/main.py: the interactive character-set selection dialogue  *)
(* (CharsetManager), the assembly of the filter file, the font inventory,  *)
(* the per-font invocation of the external subsetting tool (FontProcessor) *)
(* and the report/cleanup tail of main().                                  *)
(*                                                                         *)
(* Characters are code points (integers); a string is a sequence of code   *)
(* points; a text file is a sequence of lines.  Code point 0 stands for a  *)
(* whitespace character (blank or line terminator), the ones str.strip()   *)
(* removes.                                                                *)
(***************************************************************************)
EXTENDS Integers, Sequences, FiniteSets, TLC

(***************************************************************************)
(* Constants of the program                                                *)
(***************************************************************************)

\* CHARSET_FILES: key -> resource file name (ASCII stand-ins for the names)
CHARSET_FILES ==
  [ option        |-> "option.txt",
    ascii         |-> "ascii.txt",
    symbol        |-> "symbol.txt",
    hiragana      |-> "hiragana.txt",
    katakana      |-> "katakana.txt",
    half_katakana |-> "half_katakana.txt",
    full_ascii    |-> "full_ascii.txt",
    full_symbol   |-> "full_symbol.txt",
    jis_level1    |-> "jis_level1.txt",
    jis_level2    |-> "jis_level2.txt",
    jis_level3    |-> "jis_level3.txt",
    jis_level4    |-> "jis_level4.txt",
    common_kanji  |-> "common_kanji.txt",
    name_kanji    |-> "name_kanji.txt" ]

FileNames == { CHARSET_FILES[k] : k \in DOMAIN CHARSET_FILES }

\* the used-charset marker of the convert-only mode
NoSubsetMarker == "no_subset"

\* the two transient filter files of the working directory
TempChars == "temp-chars.txt"
TempAllChars == "temp-all-chars.txt"

(***************************************************************************)
(* Bounds and input families                                               *)
(***************************************************************************)

\* largest number of font files the source directory holds
MaxFonts == 2
\* largest number of payloads / lines of an input drawn for a pure function
MaxLen == 3

\* A text file on disk: present or absent, and its lines.
NoFile == [exists |-> FALSE, lines |-> <<>>]
TextFile(ls) == [exists |-> TRUE, lines |-> ls]

\* The characters each resource of a populated libs directory carries
\* (unsorted, overlapping between classes, so that assembly has work to do).
CharsetData ==
  [ option        |-> <<3, 1>>,
    ascii         |-> <<1, 2>>,
    symbol        |-> <<4>>,
    hiragana      |-> <<5, 3>>,
    katakana      |-> <<6>>,
    half_katakana |-> <<7, 6>>,
    full_ascii    |-> <<8, 2>>,
    full_symbol   |-> <<8, 4>>,
    jis_level1    |-> <<9>>,
    jis_level2    |-> <<10>>,
    jis_level3    |-> <<11>>,
    jis_level4    |-> <<12>>,
    common_kanji  |-> <<13, 9>>,
    name_kanji    |-> <<14, 13>> ]

\* A populated resource: a description line, then one line of characters,
\* each ended by a line terminator.
ResourceFile(k) == TextFile(<< <<20, 0>>, CharsetData[k] \o <<0>> >>)

\* The libs directories explored: which resources are absent from it.
MissingSets ==
  { {},
    DOMAIN CHARSET_FILES,
    {"option"},
    {"common_kanji"},
    {"jis_level1", "name_kanji"} }

LibsWithout(missing) ==
  [ f \in FileNames |->
      LET k == CHOOSE x \in DOMAIN CHARSET_FILES : CHARSET_FILES[x] = f
      IN  IF k \in missing THEN NoFile ELSE ResourceFile(k) ]

\* The font files a source directory may hold.  Paths are numbered in
\* lexicographic order: 1 = src/A.otf, 2 = src/A.ttf, 3 = src/B.ttf.
FontPaths == {1, 2, 3}
BaseName(p) == IF p = 3 THEN "B" ELSE "A"

(***************************************************************************)
(* Pure functions                                                          *)
(***************************************************************************)

RECURSIVE lstrip(_)
lstrip(s) ==
  IF s = <<>> THEN s
  ELSE IF Head(s) = 0 THEN lstrip(Tail(s)) ELSE s

RECURSIVE rstrip(_)
rstrip(s) ==
  IF s = <<>> THEN s
  ELSE IF s[Len(s)] = 0 THEN rstrip(SubSeq(s, 1, Len(s) - 1)) ELSE s

\* str.strip()
strip(s) == rstrip(lstrip(s))

\* ''.join(line.strip() for line in lines)
RECURSIVE JoinStripped(_)
JoinStripped(lines) ==
  IF lines = <<>> THEN <<>>
  ELSE strip(Head(lines)) \o JoinStripped(Tail(lines))

\* CharsetManager.load_charset_file: the content returned for a resource file
load_charset_file(file) ==
  IF ~file.exists THEN <<>>
  ELSE IF Len(file.lines) > 1
       THEN JoinStripped(SubSeq(file.lines, 2, Len(file.lines)))
       ELSE JoinStripped(file.lines)

\* ''.join(contents)
RECURSIVE Join(_)
Join(contents) ==
  IF contents = <<>> THEN <<>> ELSE Head(contents) \o Join(Tail(contents))

Range(s) == { s[i] : i \in 1..Len(s) }

Min(S) == CHOOSE x \in S : \A y \in S : x <= y

\* sorted(S) of a finite set of integers
RECURSIVE sorted(_)
sorted(S) ==
  IF S = {} THEN <<>> ELSE <<Min(S)>> \o sorted(S \ {Min(S)})

\* (variant: the payloads are written as concatenated)
unique_chars_Concatenated(selected) == Join(selected)

\* _write_charset_file: unique_chars = ''.join(sorted(set(all_chars)))
unique_chars(selected) == sorted(Range(Join(selected)))

\* [content for content in selected_content if content]
RECURSIVE NonEmpty(_)
NonEmpty(contents) ==
  IF contents = <<>> THEN <<>>
  ELSE IF Head(contents) = <<>> THEN NonEmpty(Tail(contents))
       ELSE <<Head(contents)>> \o NonEmpty(Tail(contents))

\* FontProcessor.build_pyftsubset_command: the output file of a font
output_name(p) == BaseName(p)

(***************************************************************************)
(* State                                                                   *)
(***************************************************************************)
VARIABLES
  pc,                 \* position of main(): the prompt or I/O step it is at
  exit,               \* how the run ended ("" while running)
  libsExists,         \* os.path.exists(libs_dir)
  libs,               \* resource file name -> text file of the libs directory
  selected_content,   \* CharsetManager.selected_content
  self_used_charsets, \* CharsetManager.used_charsets
  self_charset_contents, \* CharsetManager.charset_contents
  success,            \* main: success of select_charsets
  used_charsets,      \* main: used_charsets returned by select_charsets
  charset_contents,   \* main: charset_contents returned by select_charsets
  dialogue,           \* history: the prompts answered, <<question, answer>>
  loaded,             \* history: resource files load_charset_file was called on
  font_files,         \* FontProcessor.font_files / main: font_files
  distExists,         \* the output directory exists
  distCreated,        \* history: the output directory was created in this run
  distFiles,          \* .woff2 files present in the output directory
  tempFiles,          \* transient file name -> text content on disk (or NoFile)
  writeStatus,        \* history: transient file name -> how its writing in this
                      \* run ended ("none" while not attempted)
  text_file,          \* main: text_file
  invoked,            \* history: external invocations <<font, text file, result>>
  success_count,      \* main: success_count
  report,             \* report.md: NoFile or its font list and charset section
  summary             \* the final summary line: <<success_count, total_count>>

selVars == <<libsExists, libs, selected_content, self_used_charsets,
             self_charset_contents, success, used_charsets, charset_contents,
             dialogue, loaded>>
fontVars == <<font_files, distExists, distCreated, distFiles,
              text_file, invoked, success_count, report, summary>>
vars == <<pc, exit, selVars, fontVars, tempFiles, writeStatus>>

\* the transient files successfully written in this run
written == { f \in DOMAIN writeStatus : writeStatus[f] = "ok" }

(***************************************************************************)
(* CharsetManager                                                          *)
(***************************************************************************)

\* ask_yes_no: the answers a prompt can return (an unrecognised input
\* re-prompts and changes nothing)
ask_yes_no == BOOLEAN

\* The manager's fields as one value, so that a step can thread several
\* add_charset_file calls.
Manager ==
  [ sc     |-> selected_content,
    used   |-> self_used_charsets,
    cont   |-> self_charset_contents,
    loaded |-> loaded ]

SetManager(m) ==
  /\ selected_content' = m.sc
  /\ self_used_charsets' = m.used
  /\ self_charset_contents' = m.cont
  /\ loaded' = m.loaded

\* CharsetManager.add_charset_file
add_charset_file(m, filename) ==
  LET content == load_charset_file(libs[filename])
  IN  IF content # <<>>
      THEN [ sc     |-> Append(m.sc, content),
             used   |-> Append(m.used, filename),
             cont   |-> (filename :> content) @@ m.cont,
             loaded |-> Append(m.loaded, filename) ]
      ELSE [ m EXCEPT !.loaded = Append(m.loaded, filename) ]

\* _select_basic_charsets, its first lines: the option class is loaded
\* without asking and is always recorded as used
load_option(m) ==
  LET filename == CHARSET_FILES["option"]
      option_content == load_charset_file(libs[filename])
  IN  [ sc     |-> IF option_content # <<>>
                   THEN Append(m.sc, option_content) ELSE m.sc,
        used   |-> Append(m.used, filename),
        cont   |-> (filename :> option_content) @@ m.cont,
        loaded |-> Append(m.loaded, filename) ]

\* what select_charsets hands back to main
Return(s, u, c) ==
  /\ success' = s
  /\ used_charsets' = u
  /\ charset_contents' = c

NoSubsetResult ==
  Return(TRUE, <<NoSubsetMarker>>, (NoSubsetMarker :> <<>>))

Asked(q, a) == dialogue' = Append(dialogue, <<q, a>>)

\* The prompt that follows a "no" to the Hiragana prompt: _select_basic_charsets
\* returns, and select_charsets goes on with _select_advanced_charsets.
AfterHiraganaNo == "katakana"

\* (variant: the level 3 prompt is asked whatever the level 2 answer)
AfterJisLevel2No_AsksLevel3 == "jis_level3"

\* The prompt that follows a "no" to the JIS level 2 prompt ("finish": none)
AfterJisLevel2No == "finish"

\* (variant: the result of select_charsets is not checked)
AfterSelection_Unchecked(s) == pc' = "detect" /\ exit' = exit

\* main, right after select_charsets: "if not success: return"
AfterSelection(s) ==
  IF s THEN pc' = "detect" /\ exit' = exit
  ELSE pc' = "done" /\ exit' = "selection_failed"

\* (variant: the filter file is written even when nothing was selected)
EndOfDialogue_AlwaysWrites(m) ==
  /\ SetManager([m EXCEPT !.sc = NonEmpty(m.sc)])
  /\ pc' = "write_charset_file"
  /\ UNCHANGED <<exit, success, used_charsets, charset_contents>>

\* select_charsets, after the two selection parts: drop empty contents; with
\* nothing selected return the no-subsetting marker, else go on to write
EndOfDialogue(m) ==
  LET kept == NonEmpty(m.sc)
  IN  /\ SetManager([m EXCEPT !.sc = kept])
      /\ IF kept = <<>>
         THEN NoSubsetResult /\ AfterSelection(TRUE)
         ELSE /\ pc' = "write_charset_file"
              /\ UNCHANGED <<exit, success, used_charsets, charset_contents>>

\* a prompt answered, with more of the dialogue to come at `next`
Continue(m, next) ==
  IF next = "finish" THEN EndOfDialogue(m)
  ELSE /\ SetManager(m)
       /\ pc' = next
       /\ UNCHANGED <<exit, success, used_charsets, charset_contents>>

\* select_charsets up to its first prompt
SelectCharsets ==
  /\ pc = "start"
  /\ IF ~libsExists
     THEN Return(TRUE, <<>>, <<>>) /\ AfterSelection(TRUE)
     ELSE pc' = "mode" /\ UNCHANGED <<exit, success, used_charsets, charset_contents>>
  /\ UNCHANGED <<libsExists, libs, selected_content, self_used_charsets,
                 self_charset_contents, dialogue, loaded, fontVars, tempFiles,
                 writeStatus>>

\* "convert to WOFF2 only, without subsetting?"

AskMode ==
  /\ pc = "mode"
  /\ \E a \in ask_yes_no :
       /\ Asked("mode", a)
       /\ IF a
          THEN /\ NoSubsetResult /\ AfterSelection(TRUE)
               /\ UNCHANGED <<selected_content, self_used_charsets,
                              self_charset_contents, loaded>>
          ELSE Continue(load_option(Manager), "ascii")
  /\ UNCHANGED <<libsExists, libs, fontVars, tempFiles, writeStatus>>

\* the answer to prompt q, whose "yes" adds class q and whose two answers
\* lead to `onYes` and `onNo`
Ask(q, onYes, onNo) ==
  /\ \E a \in ask_yes_no :
       /\ Asked(q, a)
       /\ IF a
          THEN Continue(add_charset_file(Manager, CHARSET_FILES[q]), onYes)
          ELSE Continue(Manager, onNo)
  /\ UNCHANGED <<libsExists, libs, fontVars, tempFiles, writeStatus>>

AskAscii ==
  /\ pc = "ascii"
  /\ Ask("ascii", "symbol", "symbol")

AskSymbol ==
  /\ pc = "symbol"
  /\ Ask("symbol", "hiragana", "hiragana")

AskHiragana ==
  /\ pc = "hiragana"
  /\ Ask("hiragana", "katakana", AfterHiraganaNo)

AskKatakana ==
  /\ pc = "katakana"
  /\ Ask("katakana", "half_katakana", "full_ascii")

AskHalfKatakana ==
  /\ pc = "half_katakana"
  /\ Ask("half_katakana", "full_ascii", "full_ascii")

AskFullAscii ==
  /\ pc = "full_ascii"
  /\ Ask("full_ascii", "full_symbol", "full_symbol")

AskFullSymbol ==
  /\ pc = "full_symbol"
  /\ Ask("full_symbol", "jis_level1", "jis_level1")

\* JIS level 1: "yes" adds the class and its two companion classes

AskJisLevel1 ==
  /\ pc = "jis_level1"
  /\ \E a \in ask_yes_no :
       /\ Asked("jis_level1", a)
       /\ IF a
          THEN LET m1 == add_charset_file(Manager, CHARSET_FILES["jis_level1"])
                   m2 == add_charset_file(m1, CHARSET_FILES["common_kanji"])
                   m3 == add_charset_file(m2, CHARSET_FILES["name_kanji"])
               IN  Continue(m3, "jis_level2")
          ELSE Continue(Manager, "finish")
  /\ UNCHANGED <<libsExists, libs, fontVars, tempFiles, writeStatus>>

AskJisLevel2 ==
  /\ pc = "jis_level2"
  /\ Ask("jis_level2", "jis_level3", AfterJisLevel2No)

AskJisLevel3 ==
  /\ pc = "jis_level3"
  /\ Ask("jis_level3", "jis_level4", "finish")

AskJisLevel4 ==
  /\ pc = "jis_level4"
  /\ Ask("jis_level4", "finish", "finish")

\* The ways writing a file can end: written, not opened, or opened (created
\* or truncated) and then failing in the write.
WriteOutcomes == {"ok", "open_fails", "write_fails"}

WriteResult(outcome, old, content) ==
  CASE outcome = "ok" -> TextFile(<<content>>)
    [] outcome = "open_fails" -> old
    [] outcome = "write_fails" -> TextFile(<<>>)

\* _write_charset_file, and main's check of the result
WriteCharsetFile ==
  /\ pc = "write_charset_file"
  /\ \E outcome \in WriteOutcomes :
       /\ tempFiles' = [tempFiles EXCEPT ![TempChars] =
                          WriteResult(outcome, @, unique_chars(selected_content))]
       /\ writeStatus' = [writeStatus EXCEPT ![TempChars] = outcome]
       /\ IF outcome = "ok"
          THEN /\ Return(TRUE, self_used_charsets, self_charset_contents)
               /\ AfterSelection(TRUE)
          ELSE /\ Return(FALSE, <<>>, <<>>)
               /\ AfterSelection(FALSE)
  /\ UNCHANGED <<libsExists, libs, selected_content, self_used_charsets,
                 self_charset_contents, dialogue, loaded, fontVars>>

(***************************************************************************)
(* FontProcessor, ReportGenerator and the rest of main                     *)
(***************************************************************************)

\* FontProcessor.detect_font_files on a source directory holding `found`
detect_font_files(found) == sorted(found)

\* the inventories explored
Inventories == { S \in SUBSET FontPaths : Cardinality(S) <= MaxFonts }

\* (variant: the marker is not looked for)
is_subset_mode_Always == TRUE

\* main: is_subset_mode
is_subset_mode == \A i \in 1..Len(used_charsets) : used_charsets[i] # NoSubsetMarker

\* (variant: the inventory is not checked for emptiness)
AfterDetect_Unchecked(fonts) == "ensure_directory"

\* main: "if not font_files: return"
AfterDetect(fonts) == IF fonts = <<>> THEN "done" ELSE "ensure_directory"

\* main: font inventory; with no font the run ends here
DetectFontFiles ==
  /\ pc = "detect"
  /\ \E found \in Inventories :
       /\ font_files' = detect_font_files(found)
       /\ pc' = AfterDetect(font_files')
       /\ exit' = IF pc' = "done" THEN "no_fonts" ELSE exit
  /\ UNCHANGED <<selVars, distExists, distCreated, distFiles, text_file,
                 invoked, success_count, report, summary, tempFiles, writeStatus>>

\* main: ensure_directory(dist_dir), then the choice of the filter file
EnsureDirectory ==
  /\ pc = "ensure_directory"
  /\ \E made \in BOOLEAN :
       /\ distExists' = (distExists \/ made)
       /\ distCreated' = (~distExists /\ made)
       /\ IF ~distExists'
          THEN pc' = "done" /\ exit' = "no_dist" /\ text_file' = text_file
          ELSE /\ exit' = exit
               /\ IF is_subset_mode
                  THEN pc' = "batch" /\ text_file' = TempChars
                  ELSE pc' = "create_dummy" /\ text_file' = TempChars
  /\ UNCHANGED <<selVars, font_files, distFiles, invoked, success_count,
                 report, summary, tempFiles, writeStatus>>

\* the characters create_dummy_charset_file writes: every character of the
\* ranges it lists (here: of the model's alphabet)
AllChars == [i \in 1..20 |-> i]

\* main: create_dummy_charset_file(dummy_chars_file) in convert-only mode;
\* on failure the filter file stays temp-chars.txt
CreateDummyCharsetFile ==
  /\ pc = "create_dummy"
  /\ \E outcome \in WriteOutcomes :
       /\ tempFiles' = [tempFiles EXCEPT ![TempAllChars] =
                          WriteResult(outcome, @, AllChars)]
       /\ writeStatus' = [writeStatus EXCEPT ![TempAllChars] = outcome]
       /\ text_file' = IF outcome = "ok" THEN TempAllChars ELSE TempChars
  /\ pc' = "batch"
  /\ UNCHANGED <<exit, selVars, font_files, distExists, distCreated, distFiles,
                 invoked, success_count, report, summary>>

\* how one run of the external tool can end
ToolOutcomes == {"exit_zero", "exit_nonzero", "launch_exception"}

\* (variant: only a launch exception counts as a failure)
process_font_IgnoresStatus(outcome) == (outcome # "launch_exception")

\* FontProcessor.process_font: its return value for an outcome of the tool
process_font(outcome) == (outcome = "exit_zero")

\* the font the batch loop passes next
NextFont == font_files[Len(invoked) + 1]

\* main: one iteration of the batch loop.  A tool that exits with status 0
\* has written its --output-file.
ProcessFont ==
  /\ pc = "batch"
  /\ Len(invoked) < Len(font_files)
  /\ \E outcome \in ToolOutcomes :
       LET ok == process_font(outcome)
       IN  /\ invoked' = Append(invoked,
                           [ font      |-> NextFont,
                             text_file |-> text_file,
                             exit_zero |-> (outcome = "exit_zero") ])
           /\ distFiles' = IF outcome = "exit_zero"
                           THEN distFiles \cup {output_name(NextFont)}
                           ELSE distFiles
           /\ success_count' = IF ok THEN success_count + 1 ELSE success_count
  /\ pc' = IF Len(invoked') = Len(font_files) THEN "report" ELSE "batch"
  /\ UNCHANGED <<exit, selVars, font_files, distExists, distCreated, text_file,
                 report, summary, tempFiles, writeStatus>>

\* ReportGenerator._write_font_list
write_font_list(fonts) == [i \in 1..Len(fonts) |-> output_name(fonts[i])]

\* ReportGenerator._write_charset_info: one section per used charset (the
\* all-characters note for the marker, else the content or the "no content"
\* note), or the default-filter note when no charset was recorded
write_charset_info(used, contents) ==
  IF used = <<>>
  THEN << [heading |-> "", kind |-> "default", content |-> <<>>] >>
  ELSE [ i \in 1..Len(used) |->
           IF used[i] = NoSubsetMarker
           THEN [heading |-> NoSubsetMarker, kind |-> "all_chars", content |-> <<>>]
           ELSE IF used[i] \in DOMAIN contents /\ contents[used[i]] # <<>>
                THEN [ heading |-> used[i], kind |-> "content",
                       content |-> contents[used[i]] ]
                ELSE [heading |-> used[i], kind |-> "no_content", content |-> <<>>] ]

\* ReportGenerator.generate_report: the report written
generate_report(fonts, used, contents) ==
  [ exists       |-> TRUE,
    subset_mode  |-> \A i \in 1..Len(used) : used[i] # NoSubsetMarker,
    total        |-> Len(fonts),
    font_list    |-> write_font_list(fonts),
    charsets     |-> used,
    contents     |-> contents,
    charset_info |-> write_charset_info(used, contents) ]

NoReport == [exists |-> FALSE]

\* cleanup_temp_files(*file_paths)
cleanup_temp_files(files, paths) ==
  [ f \in DOMAIN files |-> IF f \in paths THEN NoFile ELSE files[f] ]

\* main: report, cleanup of the transient files, final summary
ReportAndCleanup ==
  /\ pc = "report"
  /\ \E reported \in BOOLEAN :
       report' = IF reported
                 THEN generate_report(font_files, used_charsets, charset_contents)
                 ELSE report
  /\ tempFiles' = cleanup_temp_files(tempFiles, {text_file, TempAllChars})
  /\ summary' = <<success_count, Len(font_files)>>
  /\ pc' = "done"
  /\ exit' = "completed"
  /\ UNCHANGED <<selVars, font_files, distExists, distCreated, distFiles,
                 text_file, invoked, success_count, writeStatus>>

(***************************************************************************)
(* Specifications                                                          *)
(***************************************************************************)

\* CharsetManager.__init__, and nothing asked or loaded yet
InitManager ==
  /\ selected_content = <<>>
  /\ self_used_charsets = <<>>
  /\ self_charset_contents = <<>>
  /\ dialogue = <<>>
  /\ loaded = <<>>

\* main before select_charsets returns: FontProcessor.__init__, no transient
\* file in the working directory, no .woff2 file in the output directory
InitMain ==
  /\ exit = ""
  /\ success = FALSE
  /\ used_charsets = <<>>
  /\ charset_contents = <<>>
  /\ font_files = <<>>
  /\ distCreated = FALSE
  /\ distFiles = {}
  /\ tempFiles = [f \in {TempChars, TempAllChars} |-> NoFile]
  /\ writeStatus = [f \in {TempChars, TempAllChars} |-> "none"]
  /\ text_file = ""
  /\ invoked = <<>>
  /\ success_count = 0
  /\ report = NoReport
  /\ summary = <<>>

\* a run of main: any explored libs directory (or none), output directory
\* present or absent and holding no .woff2 file
Init ==
  /\ pc = "start"
  /\ InitManager
  /\ InitMain
  /\ distExists \in BOOLEAN
  /\ \/ libsExists = TRUE /\ libs \in { LibsWithout(m) : m \in MissingSets }
     \/ libsExists = FALSE /\ libs = LibsWithout(DOMAIN CHARSET_FILES)

Next ==
  \/ SelectCharsets
  \/ AskMode
  \/ AskAscii
  \/ AskSymbol
  \/ AskHiragana
  \/ AskKatakana
  \/ AskHalfKatakana
  \/ AskFullAscii
  \/ AskFullSymbol
  \/ AskJisLevel1
  \/ AskJisLevel2
  \/ AskJisLevel3
  \/ AskJisLevel4
  \/ WriteCharsetFile
  \/ DetectFontFiles
  \/ EnsureDirectory
  \/ CreateDummyCharsetFile
  \/ ProcessFont
  \/ ReportAndCleanup

Spec == Init /\ [][Next]_vars

(***************************************************************************)
(* Specifications for the two pure functions, on drawn inputs              *)
(***************************************************************************)

\* payloads drawn for the assembly: unsorted, with repeats inside a payload
\* and between payloads
PayloadSamples == { <<1>>, <<2, 1>>, <<3, 3>>, <<2, 3, 1>>, <<4, 1>> }

\* the classes that carry the drawn payloads, in the order of the dialogue
AssembleOrder == <<"option", "ascii", "symbol", "hiragana">>

PayloadLists ==
  UNION { [1..n -> PayloadSamples] : n \in 1..MaxLen }

\* select_charsets at the point of writing the filter file: the operator
\* accepted the first classes of the dialogue, whose resources hold the drawn
\* payloads, and declined the others
InitAssemble ==
  \E payloads \in PayloadLists :
    LET n == Len(payloads)
        names == [i \in 1..n |-> CHARSET_FILES[AssembleOrder[i]]]
        at(f) == CHOOSE j \in 1..n : names[j] = f
    IN  /\ n <= Len(AssembleOrder)
        /\ pc = "write_charset_file"
        /\ InitMain
        /\ distExists = FALSE
        /\ libsExists = TRUE
        /\ libs = [ f \in FileNames |->
                      IF f \in Range(names)
                      THEN TextFile(<< <<20, 0>>, payloads[at(f)] \o <<0>> >>)
                      ELSE NoFile ]
        /\ selected_content = payloads
        /\ self_used_charsets = names
        /\ self_charset_contents = [f \in Range(names) |-> payloads[at(f)]]
        /\ dialogue = << <<"mode", FALSE>>, <<"ascii", n >= 2>>,
                         <<"symbol", n >= 3>>, <<"hiragana", n >= 4>>,
                         <<"katakana", FALSE>>, <<"full_ascii", FALSE>>,
                         <<"full_symbol", FALSE>>, <<"jis_level1", FALSE>> >>
        /\ loaded = names

NextAssemble == WriteCharsetFile

SpecAssemble == InitAssemble /\ [][NextAssemble]_vars

\* lines drawn for a resource file: blank, plain, with leading, trailing and
\* inner whitespace
LineSamples == { <<0>>, <<1, 0>>, <<0, 2, 0>>, <<3, 0, 4, 0>>, <<5>> }

LineLists ==
  UNION { [1..n -> LineSamples] : n \in 0..MaxLen }

\* a libs directory holding only the option resource, with the drawn lines
InitLoad ==
  /\ pc = "start"
  /\ InitManager
  /\ InitMain
  /\ distExists = FALSE
  /\ libsExists = TRUE
  /\ \E lines \in LineLists :
       libs = [ LibsWithout(DOMAIN CHARSET_FILES)
                  EXCEPT ![CHARSET_FILES["option"]] = TextFile(lines) ]

NextLoad ==
  \/ SelectCharsets
  \/ AskMode

SpecLoad == InitLoad /\ [][NextLoad]_vars

(***************************************************************************)
(* Properties                                                              *)
(***************************************************************************)

\* prompt q has been answered with a
Answered(q, a) == \E i \in 1..Len(dialogue) : dialogue[i] = <<q, a>>

\* prompt q has been issued: it is waiting for its answer, or was answered
Issued(q) == pc = q \/ \E i \in 1..Len(dialogue) : dialogue[i][1] = q

\* the content load_charset_file returns for class k in this run
ContentOf(k) == load_charset_file(libs[CHARSET_FILES[k]])

\* class k is part of the manager's selection, with content c
SelectedWith(k, c) ==
  /\ \E i \in 1..Len(self_used_charsets) : self_used_charsets[i] = CHARSET_FILES[k]
  /\ \E i \in 1..Len(selected_content) : selected_content[i] = c
  /\ CHARSET_FILES[k] \in DOMAIN self_charset_contents
  /\ self_charset_contents[CHARSET_FILES[k]] = c

\* class k holds no character, or is selected with its content
SelectedIfAny(k) ==
  LET c == ContentOf(k) IN c # <<>> => SelectedWith(k, c)

AfterHiragana ==
  { "katakana", "half_katakana", "full_ascii", "full_symbol",
    "jis_level1", "jis_level2", "jis_level3", "jis_level4" }

\* C1: once the Hiragana prompt is answered "no", no later prompt (Katakana,
\* half-width Katakana, full-width alphanumerics and symbols, JIS levels 1-4)
\* is issued, and the selection holds only classes of the Option, Ascii and
\* Symbol stages.
C1_HiraganaNoEndsDialogue ==
  Answered("hiragana", FALSE) =>
    /\ \A q \in AfterHiragana : ~Issued(q)
    /\ \A i \in 1..Len(self_used_charsets) :
         self_used_charsets[i] \in
           { CHARSET_FILES[k] : k \in {"option", "ascii", "symbol"} }

\* C2: once JIS level 1 is answered "yes" both companion classes have been
\* loaded and, when they hold characters, are selected, whatever was answered
\* later; after a "no" to level 2 neither level 3 nor level 4 is issued, and
\* after a "no" to level 3 level 4 is not issued; in every state, so also
\* after a "no" at level 2, 3 or 4, every class accumulated earlier (the
\* option class and each accepted class that holds characters) is still
\* selected with its content.
C2_JisChain ==
  /\ Answered("jis_level1", TRUE) =>
       \A k \in {"common_kanji", "name_kanji"} :
         /\ \E i \in 1..Len(loaded) : loaded[i] = CHARSET_FILES[k]
         /\ SelectedIfAny(k)
  /\ Answered("jis_level2", FALSE) => ~Issued("jis_level3") /\ ~Issued("jis_level4")
  /\ Answered("jis_level3", FALSE) => ~Issued("jis_level4")
  /\ \A k \in DOMAIN CHARSET_FILES \ {"option", "common_kanji", "name_kanji"} :
       Answered(k, TRUE) => SelectedIfAny(k)
  /\ Answered("mode", FALSE) => SelectedIfAny("option")

\* C2 witness: level 1 accepted, level 2 declined, the run completed with
\* both companion classes among the used charsets.
C2_Witness ==
  /\ Answered("jis_level1", TRUE)
  /\ Answered("jis_level2", FALSE)
  /\ exit = "completed"
  /\ CHARSET_FILES["common_kanji"] \in Range(used_charsets)
  /\ CHARSET_FILES["name_kanji"] \in Range(used_charsets)

\* the filter file written by _write_charset_file
FilterText == tempFiles[TempChars].lines[1]

Orderings(n) ==
  { p \in [1..n -> 1..n] : \A i, j \in 1..n : p[i] = p[j] => i = j }

\* C3: the filter file _write_charset_file writes holds exactly the characters
\* of the selected payloads, each once, in ascending code-point order; so the
\* same payloads in any order, or with one of them repeated, give the same
\* file.
C3_SortedDistinctUnion ==
  writeStatus[TempChars] = "ok" =>
    LET n == Len(selected_content)
    IN  /\ tempFiles[TempChars].exists
        /\ Range(FilterText) = UNION { Range(selected_content[i]) : i \in 1..n }
        /\ \A i, j \in 1..Len(FilterText) : i < j => FilterText[i] < FilterText[j]
        /\ \A p \in Orderings(n) :
             unique_chars([i \in 1..n |-> selected_content[p[i]]]) = FilterText
        /\ \A i \in 1..n :
             unique_chars(Append(selected_content, selected_content[i])) = FilterText

\* C3 witness: a file written from three payloads that share characters and
\* are not in order.
C3_Witness ==
  /\ writeStatus[TempChars] = "ok"
  /\ selected_content = << <<2, 3, 1>>, <<3, 3>>, <<4, 1>> >>
  /\ FilterText = <<1, 2, 3, 4>>

\* main is past the font inventory
Detected ==
  \/ pc \in {"ensure_directory", "create_dummy", "batch", "report"}
  \/ pc = "done" /\ exit # "selection_failed"

\* C4: with an empty font inventory main ends right after the inventory: the
\* output directory has not been created, the external tool has not been
\* invoked and no report has been written.
C4_NoFontsEndsRun ==
  Detected /\ font_files = <<>> =>
    /\ pc = "done"
    /\ ~distCreated
    /\ invoked = <<>>
    /\ ~report.exists

\* C4 witness: a run that selected characters, wrote the filter file and then
\* found no font, the output directory being absent.
C4_Witness ==
  /\ exit = "no_fonts"
  /\ writeStatus[TempChars] = "ok"
  /\ ~distExists

\* every invocation of the external tool so far exited with status 0
AllExitZero == \A i \in 1..Len(invoked) : invoked[i].exit_zero

\* C5: N distinct fonts, an output directory without .woff2 files, every
\* invocation exiting with status 0: the output directory ends with exactly N
\* distinct .woff2 files and the summary reports N/N.
C5_OneOutputPerFont ==
  exit = "completed" /\ AllExitZero =>
    /\ Cardinality(distFiles) = Len(font_files)
    /\ summary = <<Len(font_files), Len(font_files)>>

\* C6: every run of main, however it ends, ends with no transient filter
\* file that was written during the run still in the working directory.
C6_NoTransientFileLeft ==
  pc = "done" => \A f \in written : ~tempFiles[f].exists

\* the number of invocations so far that exited with status 0
RECURSIVE CountExitZero(_)
CountExitZero(inv) ==
  IF inv = <<>> THEN 0
  ELSE (IF Head(inv).exit_zero THEN 1 ELSE 0) + CountExitZero(Tail(inv))

\* C7: the batch loop passes the fonts of the inventory to the external tool
\* in inventory order, each once, whatever the earlier outcomes: the loop is
\* left only when every font was passed; the success count is the number of
\* invocations that exited with status 0, between 0 and the total.
C7_BatchIsolatesFailures ==
  /\ Len(invoked) <= Len(font_files)
  /\ \A i \in 1..Len(invoked) : invoked[i].font = font_files[i]
  /\ \A i, j \in 1..Len(font_files) : i < j => font_files[i] < font_files[j]
  /\ pc = "batch" => Len(invoked) < Len(font_files)
  /\ pc = "report" \/ exit = "completed" => Len(invoked) = Len(font_files)
  /\ success_count = CountExitZero(invoked)
  /\ 0 <= success_count /\ success_count <= Len(font_files)
  /\ exit = "completed" => summary = <<CountExitZero(invoked), Len(font_files)>>

\* C7 witness: a completed batch of two fonts whose first invocation failed
\* and whose second exited with status 0.
C7_Witness ==
  /\ exit = "completed"
  /\ Len(invoked) = 2
  /\ ~invoked[1].exit_zero
  /\ invoked[2].exit_zero
  /\ summary = <<1, 2>>

\* C8: after "convert only" at the first prompt no other prompt is issued and
\* no resource is loaded, the selection is empty, the used-charset list is
\* exactly the no-subsetting marker; main attempts to create
\* temp-all-chars.txt before the batch and, when it was created, every
\* invocation names it as the filter file.
C8_ConvertOnly ==
  Answered("mode", TRUE) =>
    /\ dialogue = << <<"mode", TRUE>> >>
    /\ \A q \in DOMAIN CHARSET_FILES : pc # q
    /\ loaded = <<>>
    /\ selected_content = <<>>
    /\ used_charsets = <<NoSubsetMarker>>
    /\ writeStatus[TempChars] = "none"
    /\ pc \in {"batch", "report"} \/ exit = "completed" =>
         writeStatus[TempAllChars] # "none"
    /\ writeStatus[TempAllChars] = "ok" =>
         \A i \in 1..Len(invoked) : invoked[i].text_file = TempAllChars
    /\ exit = "completed" => Len(invoked) = Len(font_files)

\* C8 witness: a completed convert-only run over two fonts, both invoked with
\* temp-all-chars.txt.
C8_Witness ==
  /\ Answered("mode", TRUE)
  /\ exit = "completed"
  /\ writeStatus[TempAllChars] = "ok"
  /\ Len(invoked) = 2
  /\ \A i \in 1..2 : invoked[i].text_file = TempAllChars

\* C9: when writing temp-chars.txt fails, select_charsets reports failure and
\* main ends before the font inventory: no invocation of the external tool, no
\* output directory created, no report.
C9_WriteFailureAborts ==
  writeStatus[TempChars] \in {"open_fails", "write_fails"} =>
    /\ ~success
    /\ used_charsets = <<>>
    /\ pc = "done"
    /\ exit = "selection_failed"
    /\ font_files = <<>>
    /\ invoked = <<>>
    /\ ~distCreated
    /\ ~report.exists

\* C9 witness: the write failed after a dialogue that selected characters.
C9_Witness ==
  /\ writeStatus[TempChars] = "write_fails"
  /\ selected_content # <<>>
  /\ Answered("jis_level1", TRUE)
  /\ pc = "done"

\* the lines of a resource file from the second on, trimmed and concatenated
PayloadLines(lines) ==
  IF Len(lines) <= 1 THEN <<>> ELSE JoinStripped(Tail(lines))

\* C10: whatever the number of lines of an existing resource file, the content
\* load_charset_file returns is the concatenation of its trimmed lines from
\* the second on, and is empty for a file of one line.
C10_FirstLineNeverLoaded ==
  loaded # <<>> =>
    LET f == CHARSET_FILES["option"]
    IN  libs[f].exists => self_charset_contents[f] = PayloadLines(libs[f].lines)

\* the dialogue of the subsetting mode is over and nothing was selected
EmptySelection ==
  /\ Answered("mode", FALSE)
  /\ pc \notin DOMAIN CHARSET_FILES
  /\ pc # "mode"
  /\ selected_content = <<>>

\* C11: subsetting chosen and nothing selected at the end of the dialogue:
\* select_charsets succeeds without attempting temp-chars.txt and returns
\* what convert-only returns (the marker alone, with an empty content); main
\* then goes the convert-only way: temp-all-chars.txt is attempted before the
\* batch and, when created, names the filter of every invocation, every font
\* of the inventory is passed, and a report that gets written records the
\* marker section alone, none of the classes the manager recorded.
C11_EmptySelectionFallsBack ==
  EmptySelection =>
    /\ pc # "write_charset_file"
    /\ exit # "selection_failed"
    /\ success
    /\ writeStatus[TempChars] = "none"
    /\ ~tempFiles[TempChars].exists
    /\ used_charsets = <<NoSubsetMarker>>
    /\ charset_contents = (NoSubsetMarker :> <<>>)
    /\ ~is_subset_mode
    /\ pc \in {"batch", "report"} \/ exit = "completed" =>
         writeStatus[TempAllChars] # "none"
    /\ writeStatus[TempAllChars] = "ok" =>
         \A i \in 1..Len(invoked) : invoked[i].text_file = TempAllChars
    /\ exit = "completed" => Len(invoked) = Len(font_files)
    /\ report.exists =>
         /\ ~report.subset_mode
         /\ report.charset_info =
              << [heading |-> NoSubsetMarker, kind |-> "all_chars", content |-> <<>>] >>
         /\ \A i \in 1..Len(self_used_charsets) :
              \A j \in 1..Len(report.charset_info) :
                report.charset_info[j].heading # self_used_charsets[i]

\* C11 witness: every class accepted from a libs directory holding none of
\* them; the run completed over two fonts with temp-all-chars.txt and wrote
\* the report.
C11_Witness ==
  /\ EmptySelection
  /\ Answered("ascii", TRUE)
  /\ Answered("jis_level4", TRUE)
  /\ Len(self_used_charsets) = 1
  /\ exit = "completed"
  /\ Len(invoked) = 2
  /\ \A i \in 1..2 : invoked[i].text_file = TempAllChars
  /\ report.exists

\* the output names of the invocations that exited with status 0, in order
RECURSIVE ProducedNames(_)
ProducedNames(inv) ==
  IF inv = <<>> THEN <<>>
  ELSE (IF Head(inv).exit_zero THEN <<output_name(Head(inv).font)>> ELSE <<>>)
         \o ProducedNames(Tail(inv))

\* C12: the font list of the report is the list of the produced output files:
\* the output names of the fonts whose invocation in this run exited with
\* status 0, in inventory order, and no other name.
C12_ReportListsProducedFiles ==
  report.exists => report.font_list = ProducedNames(invoked)

\* C13: whenever the external tool has been invoked, the filter file named in
\* its --text-file argument was successfully written earlier in the same run.
C13_FilterWrittenBeforeInvocation ==
  \A i \in 1..Len(invoked) : invoked[i].text_file \in written

====
